---------------------------- MODULE Spec2Model ----------------------------
(***************************************************************************)
(* A model of src/src/pong.rs: the frame loop of the Bevy application      *)
(* (run criteria evaluated at the start of the stage, the systems of one   *)
(* pass run in any order the labels allow, command buffers applied at the  *)
(* end of the pass, the fixed-timestep set repeated while its accumulator  *)
(* holds a step), the ball / paddle entities, the ExitScreenEvent and      *)
(* ScoreEvent buffers with one cursor per reader, the launch timer, the    *)
(* ball counter and the score records with their display text.             *)
(*                                                                         *)
(* A step of the model is one pass of the update stage: every system that  *)
(* is due runs once, in one of the orders the registration allows, and the *)
(* command buffers are applied.  The states of the model are therefore the *)
(* tick boundaries.  Each system is an operator from world to world.       *)
(*                                                                         *)
(* Lengths are in quarter pixels (12.5 / 2 = 6.25 px is 25 units), time is *)
(* in half fixed steps (TIMESTEP = 2 units).  f32 vectors are points of    *)
(* that grid plus a NaN flag; a NaN vector fails every comparison.         *)
(***************************************************************************)
EXTENDS Integers, Sequences, FiniteSets, TLC

(***************************************************************************)
(* Program constants (pong.rs lines 6-17), in model units.                 *)
(***************************************************************************)
TIMESTEP == 2
PADDLE_OFFSET == 200
PADDLE_WIDTH == 50
PADDLE_HEIGHT == 3200
PADDLE_SPEED == 40
BOT_PADDLE_SPEED == 40
BALL_SIZE == 40
BALL_SPEED == 56
\* i16::MAX, the range of update_text's parameter
I16_MAX == 32767
\* stands for f32::MAX: larger than every coordinate of the grid
F32_MAX == 1000000000

(***************************************************************************)
(* Bounds of the model.                                                    *)
(***************************************************************************)
\* balls per batch (BALLS_AMOUNT is 100000 in the source)
MaxBalls == 2
\* batches spawned before the model stops
MaxBatches == 2
\* launch delay in time units (BALL_LAUNCH_TIME is 10 s = 1200 units)
MaxLaunchTime == 3

BALLS_AMOUNT == MaxBalls
BALL_LAUNCH_TIME == MaxLaunchTime

\* window sizes the environment may report (bevy's minimum is 180 x 120 px)
WindowWidths == {720}
WindowHeights == {3520}
\* frame times after the first frame: half a step, two steps
Deltas == {1, 4}
\* pairs of values drawn from the generator, in quarters (gen() = k / 4):
\* a launch to the left and a launch to the right, both level
LaunchDraws == {<<0, 2>>, <<3, 2>>}

PLAYER == "PLAYER"
OPPONENT == "OPPONENT"
Who == {PLAYER, OPPONENT}

\* entity ids: the two paddles are spawned at startup, balls after them
PlayerId == 1
BotId == 2
FirstBallId == 3
BallIds == FirstBallId .. (FirstBallId + MaxBatches * BALLS_AMOUNT - 1)

Physics == {"update_velocity", "ball_bounce", "remove_off_screen_balls", "update_score"}
EveryFrame == {"player_input", "paddle_boundaries", "bot_ai"}
\* key states the input resource may hold: <<S pressed, W pressed>>
KeyStates == {<<FALSE, FALSE>>}

VARIABLES
    ents,          \* live entities: id -> [tag, pos, vel]
    nextId,        \* next entity id to allocate
    winW, winH,    \* window size
    ballCount,     \* BallCount resource (i32)
    timer,         \* LaunchTimer: [elapsed, finished, just]
    accumulator,   \* FixedTimestep accumulator
    looping,       \* FixedTimestep: a further step is due in this frame
    firstFrame,    \* Time has no previous update: delta is 0
    exitEv,        \* Events<ExitScreenEvent>: [old, new, oldStart]
    scoreEv,       \* Events<ScoreEvent>: [old, new]
    readScore,     \* update_score's reader cursor
    readRemove,    \* remove_off_screen_balls' reader cursor
    scoreVal,      \* Score.1 of each record
    scoreText,     \* Text of each record, a sequence of characters
    hist           \* history: what the checks need to remember

vars == <<ents, nextId, winW, winH, ballCount, timer, accumulator, looping,
          firstFrame, exitEv, scoreEv, readScore, readRemove, scoreVal, scoreText,
          hist>>

(***************************************************************************)
(* Vectors.                                                                *)
(***************************************************************************)
Vec(x, y) == [x |-> x, y |-> y, nan |-> FALSE]
NaNVec == [x |-> 0, y |-> 0, nan |-> TRUE]
Zero == Vec(0, 0)

VAdd(a, b) == IF a.nan \/ b.nan THEN NaNVec ELSE Vec(a.x + b.x, a.y + b.y)
VSub(a, b) == IF a.nan \/ b.nan THEN NaNVec ELSE Vec(a.x - b.x, a.y - b.y)

Abs(n) == IF n < 0 THEN -n ELSE n
Signum(n) == IF n < 0 THEN -1 ELSE 1
Min(a, b) == IF a < b THEN a ELSE b
\* division truncating toward zero, b > 0
TDiv(a, b) == IF a >= 0 THEN a \div b ELSE -((-a) \div b)

RECURSIVE SqrtIter(_, _, _)
SqrtIter(n, lo, hi) ==
    IF lo >= hi THEN lo
    ELSE LET mid == (lo + hi + 1) \div 2
         IN IF mid * mid <= n THEN SqrtIter(n, mid, hi) ELSE SqrtIter(n, lo, mid - 1)
ISqrt(n) == SqrtIter(n, 0, IF n < 46340 THEN n ELSE 46340)

\* v.normalize() * s: the zero vector has no direction and yields NaN
NormalizeTimes(v, s) ==
    IF v.nan \/ (v.x = 0 /\ v.y = 0) THEN NaNVec
    ELSE LET len16 == ISqrt(256 * (v.x * v.x + v.y * v.y))
         IN Vec(TDiv(16 * v.x * s, len16), TDiv(16 * v.y * s, len16))

RECURSIVE SetToSeq(_)
SetToSeq(S) ==
    IF S = {} THEN <<>>
    ELSE LET m == CHOOSE x \in S : \A y \in S : x <= y
         IN <<m>> \o SetToSeq(S \ {m})

\* the entities of a query, in a store es: id -> [tag, pos, vel]
BallsOf(es) == {e \in DOMAIN es : es[e].tag = "Ball"}
PaddlesOf(es) == {e \in DOMAIN es : es[e].tag \in {"Player", "Bot"}}

Live == DOMAIN ents
Balls == BallsOf(ents)
Paddles == PaddlesOf(ents)


(***************************************************************************)
(* Library semantics the systems rely on: Timer, Events, FixedTimestep.    *)
(***************************************************************************)
\* Timer::tick of a non-repeating timer: a finished timer stays finished and
\* just_finished() is true only for the tick that reaches the duration
TimerTick(t, d) ==
    IF t.finished THEN [t EXCEPT !.just = FALSE]
    ELSE LET e == t.elapsed + d
             fin == e >= BALL_LAUNCH_TIME
         IN [elapsed |-> IF fin THEN BALL_LAUNCH_TIME ELSE e, finished |-> fin, just |-> fin]

\* Timer::new(duration, false) and Timer::reset
TimerNew == [elapsed |-> 0, finished |-> FALSE, just |-> FALSE]

\* Events::update, run once per frame: the older buffer is dropped
EventsUpdate(ev) ==
    [old |-> ev.new, new |-> <<>>, oldStart |-> ev.oldStart + Len(ev.old)]

EventCount(ev) == ev.oldStart + Len(ev.old) + Len(ev.new)

\* a reader without a cursor: everything that is still buffered
EventsFromStart(ev, cursor) == ev.old \o ev.new

\* EventReader::iter from a reader's cursor: what is still buffered and unread
EventsFrom(ev, cursor) ==
    LET all == ev.old \o ev.new
        from == IF cursor > ev.oldStart THEN cursor - ev.oldStart ELSE 0
    IN SubSeq(all, from + 1, Len(all))

(***************************************************************************)
(* Run criteria.                                                           *)
(***************************************************************************)
\* a level-triggered criterion: true on every frame of an expired timer
ShouldLaunchWhileFinished(ticked) == ticked.finished

\* should_launch_ball, on the timer it has just ticked
ShouldLaunchBall(ticked) == ticked.just

\* a criterion that does not look at the counter
ShouldSpawnAlways(count) == TRUE

\* should_spawn_balls
ShouldSpawnBalls(count) == count = 0

\* FixedTimestep: a step is due
StepDue(acc) == acc >= TIMESTEP

(***************************************************************************)
(* Score text: update_text(text, score: i16) = score.to_string(), called   *)
(* with s.1.try_into().unwrap_or_default().                                *)
(***************************************************************************)
DigitChar(d) == <<"0", "1", "2", "3", "4", "5", "6", "7", "8", "9">>[d + 1]

RECURSIVE Digits(_)
Digits(n) == IF n < 10 THEN <<DigitChar(n)>> ELSE Append(Digits(n \div 10), DigitChar(n % 10))

\* i16::to_string
I16ToString(n) == IF n < 0 THEN <<"-">> \o Digits(-n) ELSE Digits(n)

\* i32 -> i16 by try_into().unwrap_or_default(): out of range gives 0
TryIntoI16(n) == IF n >= -(I16_MAX + 1) /\ n <= I16_MAX THEN n ELSE 0

UpdateText(n) == I16ToString(TryIntoI16(n))

\* reading a text back as a number (str::parse), to compare it with a count
DigitVal(c) == CHOOSE d \in 0 .. 9 : DigitChar(d) = c

RECURSIVE ParseDigits(_)
ParseDigits(t) ==
    IF Len(t) = 0 THEN 0
    ELSE 10 * ParseDigits(SubSeq(t, 1, Len(t) - 1)) + DigitVal(t[Len(t)])

Parse(t) == IF Len(t) > 0 /\ t[1] = "-" THEN -ParseDigits(Tail(t)) ELSE ParseDigits(t)

(***************************************************************************)
(* Startup: setup, spawn_paddles, spawn_background (add_text).             *)
(***************************************************************************)
SpawnPaddles(w) ==
    (PlayerId :> [tag |-> "Player", pos |-> Vec(-(w \div 2) + PADDLE_OFFSET, 0), vel |-> Zero])
    @@ (BotId :> [tag |-> "Bot", pos |-> Vec((w \div 2) - PADDLE_OFFSET, 0), vel |-> Zero])

HistInit ==
    [goals |-> [b \in BallIds |-> 0],
     scored |-> [b \in BallIds |-> 0],
     removed |-> [b \in BallIds |-> 0],
     batches |-> 0,
     launches |-> 0,
     scoreLog |-> <<>>,
     pre |-> <<>>,
     keys |-> <<>>,
     ticks |-> 0,
     bounce |-> <<>>,
     bot |-> [ran |-> FALSE, balls |-> 0, before |-> Zero, after |-> Zero]]

InitWith(score, tm, first) ==
    /\ winW \in WindowWidths
    /\ winH \in WindowHeights
    /\ ents = SpawnPaddles(winW)
    /\ nextId = FirstBallId
    /\ ballCount = 0
    /\ timer = tm
    /\ accumulator = 0
    /\ looping = FALSE
    /\ firstFrame = first
    /\ exitEv = [old |-> <<>>, new |-> <<>>, oldStart |-> 0]
    /\ scoreEv = [old |-> <<>>, new |-> <<>>, oldStart |-> 0]
    /\ readScore = 0
    /\ readRemove = 0
    /\ scoreVal = [w \in Who |-> score]
    /\ scoreText = [w \in Who |-> UpdateText(score)]
    /\ hist = HistInit

\* the state after the startup stages: two paddles, no ball, scores "0"
Init == InitWith(0, TimerNew, TRUE)

(***************************************************************************)
(* The systems.  A world s holds what the systems read and write: ents,    *)
(* ballCount, timer, exitEv, scoreEv, readScore, readRemove, scoreVal,     *)
(* scoreText, hist, and the command queues of the pass, spawnQ (spawn_ball)*)
(* and despawnQ (remove_off_screen_balls).  in holds the inputs of a frame:*)
(* the window size (w, h), the key state (keys), the generator's draws     *)
(* (draw).  A system runs over all the entities of its query.              *)
(***************************************************************************)
World ==
    [ents |-> ents, ballCount |-> ballCount, timer |-> timer, exitEv |-> exitEv,
     scoreEv |-> scoreEv, readScore |-> readScore, readRemove |-> readRemove,
     spawnQ |-> 0, despawnQ |-> <<>>, scoreVal |-> scoreVal,
     scoreText |-> scoreText,
     hist |-> [hist EXCEPT !.scoreLog = <<>>, !.bot = HistInit.bot]]

\* update_velocity: every entity with a Velocity and a Transform moves
update_velocity(s) ==
    [s EXCEPT !.ents = [e \in DOMAIN s.ents |->
                          [s.ents[e] EXCEPT !.pos = VAdd(s.ents[e].pos, s.ents[e].vel)]]]

\* no reaction to the vertical bounds
BounceWallNone(v, t, height) == v

\* ball_bounce, lines 229-232: the vertical bounds invert the y velocity
BounceWall(v, t, height) ==
    IF ~t.nan /\ (t.y + BALL_SIZE \div 2 > height \/ t.y - BALL_SIZE \div 2 < -height)
    THEN (IF v.nan THEN v ELSE Vec(v.x, -v.y))
    ELSE v

\* ball_bounce, lines 234-235: the ball is beyond a horizontal bound
ExitsScreen(t, width) ==
    ~t.nan /\ (t.x + BALL_SIZE \div 2 > width \/ t.x - BALL_SIZE \div 2 < -width)

\* ball_bounce, line 236: the side recorded in the event
ExitSide(t) == IF t.x < 0 THEN PLAYER ELSE OPPONENT

\* ball_bounce, lines 240-243: the boxes of ball and paddle overlap
Overlaps(t, pt) ==
    /\ ~t.nan
    /\ ~pt.nan
    /\ t.x - BALL_SIZE \div 2 < pt.x + PADDLE_WIDTH \div 2
    /\ t.x + BALL_SIZE \div 2 > pt.x - PADDLE_WIDTH \div 2
    /\ t.y - BALL_SIZE \div 2 < pt.y + PADDLE_HEIGHT \div 2
    /\ t.y + BALL_SIZE \div 2 > pt.y - PADDLE_HEIGHT \div 2

\* ball_bounce, lines 245-246: the velocity points from the paddle to the ball
BouncePaddle(v, t, pt) ==
    IF Overlaps(t, pt) THEN NormalizeTimes(VSub(t, pt), BALL_SPEED) ELSE v

\* ball_bounce, line 239: the paddles in the order the query yields them
RECURSIVE BouncePaddles(_, _, _, _)
BouncePaddles(v, t, es, ps) ==
    IF Len(ps) = 0 THEN v
    ELSE BouncePaddles(BouncePaddle(v, t, es[Head(ps)].pos), t, es, Tail(ps))

\* the velocity ball_bounce leaves ball b with
BallBounceVelocity(es, b, height) ==
    BouncePaddles(BounceWall(es[b].vel, es[b].pos, height), es[b].pos, es,
                  SetToSeq(PaddlesOf(es)))

\* the events ball_bounce sends, one per ball beyond a horizontal bound
ExitEvents(es, width) ==
    LET out == SetToSeq({b \in BallsOf(es) : ExitsScreen(es[b].pos, width)})
    IN [i \in 1 .. Len(out) |-> [ent |-> out[i], who |-> ExitSide(es[out[i]].pos)]]

\* how often entity b is named in a sequence of exit events
Named(evs, b) == Cardinality({i \in 1 .. Len(evs) : evs[i].ent = b})

ball_bounce(s, in) ==
    LET sent == ExitEvents(s.ents, in.w \div 2)
    IN [s EXCEPT
          !.ents = [e \in DOMAIN s.ents |->
                      IF e \in BallsOf(s.ents)
                      THEN [s.ents[e] EXCEPT !.vel = BallBounceVelocity(s.ents, e, in.h \div 2)]
                      ELSE s.ents[e]],
          !.exitEv.new = @ \o sent,
          !.hist.goals = [b \in BallIds |-> @[b] + Named(sent, b)]]

\* a decrement per run instead of per event
CountAfterRemoveOnce(count, evs) == IF Len(evs) > 0 THEN count - 1 ELSE count

\* remove_off_screen_balls, line 343, for the events of one run
CountAfterRemove(count, evs) == count - Len(evs)

\* remove_off_screen_balls: one despawn command and one decrement per event
remove_off_screen_balls(s) ==
    LET evs == EventsFrom(s.exitEv, s.readRemove)
    IN [s EXCEPT
          !.despawnQ = @ \o [i \in 1 .. Len(evs) |-> evs[i].ent],
          !.ballCount = CountAfterRemove(@, evs),
          !.readRemove = EventCount(s.exitEv),
          !.hist.removed = [b \in BallIds |-> @[b] + Named(evs, b)]]

\* update_score, lines 320-323: the side that wins the goal
Winner(who) == IF who = PLAYER THEN OPPONENT ELSE PLAYER

\* every record counts every event
IncrementedBoth(e) == Who

\* update_score, line 326: the records the event increments
Incremented(e) == {w \in Who : w = e.who}

\* update_score, lines 325-332, for one event; st = [val, text, sent, log]
ScoreOne(st, e, es, width) ==
    LET inc == Incremented(e)
        val == [w \in Who |-> IF w \in inc THEN st.val[w] + 1 ELSE st.val[w]]
        text == [w \in Who |-> IF w \in inc THEN UpdateText(val[w]) ELSE st.text[w]]
        t == IF e.ent \in DOMAIN es THEN es[e.ent].pos ELSE NaNVec
    IN [val |-> val,
        text |-> text,
        sent |-> Append(st.sent, Winner(e.who)),
        log |-> Append(st.log,
                       [left |-> ~t.nan /\ t.x - BALL_SIZE \div 2 < -width,
                        right |-> ~t.nan /\ t.x + BALL_SIZE \div 2 > width,
                        inc |-> inc, before |-> st.val, val |-> val, text |-> text,
                        sent |-> <<Winner(e.who)>>])]

RECURSIVE ScoreAll(_, _, _, _)
ScoreAll(st, evs, es, width) ==
    IF Len(evs) = 0 THEN st
    ELSE ScoreAll(ScoreOne(st, Head(evs), es, width), Tail(evs), es, width)

\* update_score: every unread exit event is scored and answered by a ScoreEvent
update_score(s, in) ==
    LET evs == EventsFrom(s.exitEv, s.readScore)
        st == ScoreAll([val |-> s.scoreVal, text |-> s.scoreText, sent |-> <<>>,
                        log |-> <<>>], evs, s.ents, in.w \div 2)
    IN [s EXCEPT
          !.scoreVal = st.val,
          !.scoreText = st.text,
          !.scoreEv.new = @ \o st.sent,
          !.readScore = EventCount(s.exitEv),
          !.hist.scoreLog = st.log,
          !.hist.scored = [b \in BallIds |-> @[b] + Named(evs, b)]]

\* spawn_ball, line 288: the number of spawn commands
SpawnAmount == BALLS_AMOUNT

\* spawn_ball, line 297: the counter after a batch is queued
CountAfterSpawn == BALLS_AMOUNT

\* spawn_ball: BALLS_AMOUNT spawn commands, the timer reset, the counter set
spawn_ball(s) ==
    [s EXCEPT
       !.spawnQ = @ + SpawnAmount,
       !.timer = TimerNew,
       !.ballCount = CountAfterSpawn,
       !.hist.batches = @ + 1,
       !.hist.launches = 0]

\* a launch that leaves the velocity at its default
LaunchVelocityZero(draw) == Zero

\* launch_ball, lines 133-136: x = (gen() - 0.5) * 2, y = gen() - 0.5, with
\* gen() = draw / 4; the vector is normalized and scaled to BALL_SPEED
LaunchVelocity(draw) ==
    NormalizeTimes(Vec(2 * (draw[1] - 2), draw[2] - 2), BALL_SPEED)

\* launch_ball: every ball gets a velocity of its own draw
launch_ball(s, in) ==
    [s EXCEPT
       !.ents = [e \in DOMAIN s.ents |->
                   IF e \in BallsOf(s.ents)
                   THEN [s.ents[e] EXCEPT !.vel = LaunchVelocity(in.draw[e])]
                   ELSE s.ents[e]],
       !.hist.launches = Min(@ + 1, 2)]

\* W before S
PlayerVelocityUpFirst(keys) ==
    IF keys[2] THEN PADDLE_SPEED ELSE IF keys[1] THEN -PADDLE_SPEED ELSE 0

\* player_input, lines 191-198: S before W
PlayerVelocityY(keys) ==
    IF keys[1] THEN -PADDLE_SPEED ELSE IF keys[2] THEN PADDLE_SPEED ELSE 0

player_input(s, in) ==
    [s EXCEPT
       !.ents = [e \in DOMAIN s.ents |->
                   IF s.ents[e].tag = "Player"
                   THEN [s.ents[e] EXCEPT !.vel.y = PlayerVelocityY(in.keys)]
                   ELSE s.ents[e]],
       !.hist.keys = in.keys]

\* a clamp at the upper bound only
ClampPaddleTop(t, height) ==
    IF t.y + PADDLE_HEIGHT \div 2 > height
    THEN [t EXCEPT !.y = height - PADDLE_HEIGHT \div 2]
    ELSE t

\* no clamp
ClampPaddleNever(t, height) == t

\* paddle_boundaries, lines 209-214, for one paddle position
ClampPaddle(t, height) ==
    IF t.y + PADDLE_HEIGHT \div 2 > height
    THEN [t EXCEPT !.y = height - PADDLE_HEIGHT \div 2]
    ELSE IF t.y - PADDLE_HEIGHT \div 2 < -height
         THEN [t EXCEPT !.y = -height + PADDLE_HEIGHT \div 2]
         ELSE t

paddle_boundaries(s, in) ==
    [s EXCEPT
       !.ents = [e \in DOMAIN s.ents |->
                   IF e \in PaddlesOf(s.ents)
                   THEN [s.ents[e] EXCEPT !.pos = ClampPaddle(s.ents[e].pos, in.h \div 2)]
                   ELSE s.ents[e]]]

\* squared length of b - t (the order of lengths is the order of their squares)
Dist2(b, t) == (b.x - t.x) * (b.x - t.x) + (b.y - t.y) * (b.y - t.y)

\* bot_ai, lines 147-155: best = [ball, dist2], dist2 < 0 standing for f32::MAX;
\* a ball at a NaN position has a NaN distance and is never closer
RECURSIVE Closest(_, _, _, _)
Closest(t, es, bs, best) ==
    IF Len(bs) = 0 THEN best
    ELSE LET b == es[Head(bs)].pos
             closer == ~b.nan /\ (best.dist2 < 0 \/ Dist2(b, t) < best.dist2)
         IN Closest(t, es, Tail(bs),
                    IF closer THEN [ball |-> b, dist2 |-> Dist2(b, t)] ELSE best)

\* a bot that always moves at full speed
BotVelocityFull(t, es) ==
    LET best == Closest(t, es, SetToSeq(BallsOf(es)),
                        [ball |-> Vec(F32_MAX, F32_MAX), dist2 |-> -1])
    IN BOT_PADDLE_SPEED * Signum(best.ball.y - t.y)

\* bot_ai, lines 157-159: the bot's y velocity for the closest ball
BotVelocityY(t, es) ==
    LET best == Closest(t, es, SetToSeq(BallsOf(es)),
                        [ball |-> Vec(F32_MAX, F32_MAX), dist2 |-> -1])
        delta == best.ball.y - t.y
    IN Min(Abs(delta), BOT_PADDLE_SPEED) * Signum(delta)

bot_ai(s) ==
    LET after == [e \in DOMAIN s.ents |->
                    IF s.ents[e].tag = "Bot"
                    THEN [s.ents[e] EXCEPT !.vel.y = BotVelocityY(s.ents[e].pos, s.ents)]
                    ELSE s.ents[e]]
    IN [s EXCEPT
          !.ents = after,
          !.hist.bot = [ran |-> TRUE, balls |-> Cardinality(BallsOf(s.ents)),
                        before |-> s.ents[BotId].vel, after |-> after[BotId].vel]]

(***************************************************************************)
(* The schedule of a pass (run, lines 29-43).                              *)
(***************************************************************************)
\* registration order
Index(sys) ==
    CASE sys = "update_velocity" -> 1
      [] sys = "ball_bounce" -> 2
      [] sys = "remove_off_screen_balls" -> 3
      [] sys = "update_score" -> 4
      [] sys = "spawn_ball" -> 5
      [] sys = "launch_ball" -> 6
      [] sys = "player_input" -> 7
      [] sys = "paddle_boundaries" -> 8
      [] sys = "bot_ai" -> 9

\* the labels: what a system is registered to run after
After(sys) ==
    CASE sys = "ball_bounce" -> {"update_velocity"}
      [] sys = "remove_off_screen_balls" -> {"ball_bounce"}
      [] sys = "update_score" -> {"ball_bounce"}
      [] OTHER -> {}

\* pairs of systems of which one writes what the other reads or writes (their
\* parameter lists); the executor runs any other pair in parallel, so only the
\* order within these pairs can be observed
Conflicts ==
    {{"update_velocity", "ball_bounce"}, {"update_velocity", "launch_ball"},
     {"update_velocity", "player_input"}, {"update_velocity", "paddle_boundaries"},
     {"update_velocity", "bot_ai"}, {"ball_bounce", "launch_ball"},
     {"ball_bounce", "paddle_boundaries"}, {"ball_bounce", "remove_off_screen_balls"},
     {"ball_bounce", "update_score"}, {"remove_off_screen_balls", "spawn_ball"},
     {"paddle_boundaries", "bot_ai"}}

\* the orders of the systems in rest that may follow the sequence done: a
\* system runs after the ones it is registered after; of the orders that only
\* swap neighbours that do not conflict, the one in registration order is kept
RECURSIVE Extend(_, _)
Extend(done, rest) ==
    IF rest = {} THEN {done}
    ELSE UNION {Extend(Append(done, x), rest \ {x}) :
                  x \in {y \in rest :
                           /\ After(y) \cap rest = {}
                           /\ \/ Len(done) = 0
                              \/ {done[Len(done)], y} \in Conflicts
                              \/ Index(done[Len(done)]) < Index(y)}}

\* the sets of systems that can be due in one pass
DueSets ==
    {Physics} \cup
    {EveryFrame \cup p \cup a \cup b :
       p \in {{}, Physics}, a \in {{}, {"spawn_ball"}}, b \in {{}, {"launch_ball"}}}

OrderTable == [due \in DueSets |-> Extend(<<>>, due)]

Orders(due) == OrderTable[due]

Run(sys, s, in) ==
    CASE sys = "update_velocity" -> update_velocity(s)
      [] sys = "ball_bounce" -> ball_bounce(s, in)
      [] sys = "remove_off_screen_balls" -> remove_off_screen_balls(s)
      [] sys = "update_score" -> update_score(s, in)
      [] sys = "spawn_ball" -> spawn_ball(s)
      [] sys = "launch_ball" -> launch_ball(s, in)
      [] sys = "player_input" -> player_input(s, in)
      [] sys = "paddle_boundaries" -> paddle_boundaries(s, in)
      [] sys = "bot_ai" -> bot_ai(s)

\* the world after system sys has run on world s
After1(sys, s, in) == CHOOSE end \in {Run(sys, w, in) : w \in {s}} : TRUE

\* the world after the systems of order have run one after the other
RECURSIVE RunAll(_, _, _)
RunAll(order, s, in) ==
    IF Len(order) = 0 THEN s ELSE RunAll(Tail(order), After1(Head(order), s, in), in)

\* the entity a queued spawn command creates: the sprite bundle's default
\* transform, Velocity(default), Ball
NewBall == [tag |-> "Ball", pos |-> Zero, vel |-> Zero]

\* despawn commands that are lost
DespawnedNone(q) == {}

\* the entities the despawn commands of a pass remove
Despawned(q) == {q[i] : i \in 1 .. Len(q)}

\* the command buffers applied to the world at the end of a pass
ApplyCommands(es, dq, sq, id) ==
    LET born == id .. (id + sq - 1)
    IN [e \in (DOMAIN es \ Despawned(dq)) \cup born |->
          IF e \in born THEN NewBall ELSE es[e]]

\* the world at the end of a pass becomes the state
Commit(s) ==
    /\ ents' = ApplyCommands(s.ents, s.despawnQ, s.spawnQ, nextId)
    /\ nextId' = nextId + s.spawnQ
    /\ ballCount' = s.ballCount
    /\ timer' = s.timer
    /\ exitEv' = s.exitEv
    /\ scoreEv' = s.scoreEv
    /\ readScore' = s.readScore
    /\ readRemove' = s.readRemove
    /\ scoreVal' = s.scoreVal
    /\ scoreText' = s.scoreText
    /\ hist' = s.hist

\* the worlds a pass can end with: one for every order the executor may run
\* the due systems in and every draw of the generator
Outcomes(due, start, keys) ==
    {RunAll(order, start, [w |-> winW, h |-> winH, keys |-> keys, draw |-> draw]) :
       order \in Orders(due),
       draw \in (IF "launch_ball" \in due THEN [Balls -> LaunchDraws] ELSE {<<>>})}

\* The frame can begin: the stage is not in the middle of its passes.  (The
\* model stops once its last batch is gone.)
CanFrame ==
    /\ ~looping
    /\ ~(ShouldSpawnBalls(ballCount) /\ hist.batches >= MaxBatches)

\* the deltas Time can report: zero on the first frame
FrameDeltas == IF firstFrame THEN {0} ELSE Deltas

\* FixedTimestep on the first pass of a frame with delta d: the accumulator
\* grows by d, a due step is taken from it, and the criterion asks to be
\* checked again
FirstPassClock(d) ==
    LET acc == accumulator + d
        left == IF StepDue(acc) THEN acc - TIMESTEP ELSE acc
    IN /\ accumulator' = left
       /\ looping' = (StepDue(acc) /\ StepDue(left))

\* FixedTimestep when it is checked again after a pass
NextPassClock ==
    /\ accumulator' = accumulator - TIMESTEP
    /\ looping' = StepDue(accumulator - TIMESTEP)

\* First pass of a frame.  Time and the Events buffers are updated (stage
\* First); the update stage evaluates every run criterion, then runs the
\* systems that are due and applies their commands.
FrameWith(keyStates) ==
    /\ CanFrame
    /\ \E d \in FrameDeltas, keys \in keyStates :
          LET ticked == TimerTick(timer, d)
              due == EveryFrame
                     \cup (IF StepDue(accumulator + d) THEN Physics ELSE {})
                     \cup (IF ShouldSpawnBalls(ballCount) THEN {"spawn_ball"} ELSE {})
                     \cup (IF ShouldLaunchBall(ticked) THEN {"launch_ball"} ELSE {})
              start == [World EXCEPT !.timer = ticked,
                                     !.exitEv = EventsUpdate(exitEv),
                                     !.scoreEv = EventsUpdate(scoreEv)]
          IN /\ FirstPassClock(d)
             /\ \E end \in Outcomes(due, start, keys) : Commit(end)
    /\ firstFrame' = FALSE
    /\ UNCHANGED <<winW, winH>>

Frame == FrameWith(KeyStates)

\* A further pass of the same frame: the fixed-timestep criterion is asked
\* again after a pass, and while a step is due its systems alone run again.
FixedStep ==
    /\ looping
    /\ NextPassClock
    /\ \E end \in Outcomes(Physics, World, <<FALSE, FALSE>>) : Commit(end)
    /\ UNCHANGED <<winW, winH, firstFrame>>

Next ==
    \/ Frame
    \/ FixedStep

Spec == Init /\ [][Next]_vars

\* what the runner and FixedTimestep keep of the passing of time
clock == <<accumulator, looping, firstFrame>>

\* Frame and FixedStep as the clock sees them.  A pass always has an outcome,
\* so Frame is enabled exactly when FrameClock is and FixedStep exactly when
\* StepClock is, and every such step of Next changes the clock.
FrameClock ==
    /\ CanFrame
    /\ \E d \in FrameDeltas : FirstPassClock(d)
    /\ firstFrame' = FALSE

StepClock ==
    /\ looping
    /\ NextPassClock
    /\ UNCHANGED firstFrame

\* The runner keeps starting frames, each with a positive delta after the
\* first (Deltas), and a stage that has begun runs its passes to the end.
SpecFair == Spec /\ WF_clock(FrameClock) /\ WF_clock(StepClock)

\* A game in which both counts are just below the largest i16: a batch of
\* BALLS_AMOUNT = 100000 balls in the source takes a count past it.
HighScore == I16_MAX - 1

InitHigh == InitWith(HighScore, TimerNew, TRUE)

SpecHigh == InitHigh /\ [][Next]_vars

(***************************************************************************)
(* Single systems on worlds drawn from small sets.                         *)
(***************************************************************************)
\* a world made of the entities es in a window w x h, between two frames
WorldOf(es, w, h) ==
    /\ winW = w
    /\ winH = h
    /\ ents = es
    /\ nextId = FirstBallId + Cardinality(BallsOf(es))
    /\ ballCount = Cardinality(BallsOf(es))
    /\ timer = TimerNew
    /\ accumulator = 0
    /\ looping = FALSE
    /\ firstFrame = FALSE
    /\ exitEv = [old |-> <<>>, new |-> <<>>, oldStart |-> 0]
    /\ scoreEv = [old |-> <<>>, new |-> <<>>, oldStart |-> 0]
    /\ readScore = 0
    /\ readRemove = 0
    /\ scoreVal = [w2 \in Who |-> 0]
    /\ scoreText = [w2 \in Who |-> UpdateText(0)]
    /\ hist = [HistInit EXCEPT !.batches = 1]

\* balls number FirstBallId, FirstBallId + 1, ... with the given states
BallsAt(states) ==
    [b \in FirstBallId .. (FirstBallId + Len(states) - 1) |->
       [tag |-> "Ball", pos |-> states[b - FirstBallId + 1].pos,
        vel |-> states[b - FirstBallId + 1].vel]]

\* sequences of 1 .. MaxBalls elements of S
SomeOf(S) == UNION {[1 .. n -> S] : n \in 1 .. MaxBalls}

\* the paddles of a window w wide, moved to heights py (player) and by (bot)
PaddlesAt(w, py, by) ==
    [p \in {PlayerId, BotId} |->
       [SpawnPaddles(w)[p] EXCEPT !.pos.y = IF p = PlayerId THEN py ELSE by]]

\* bot_ai alone
BotYs == {-80, -20, 0, 80}
BotBallSpots ==
    {[pos |-> Vec(100, 30), vel |-> Zero], [pos |-> Vec(100, -30), vel |-> Zero],
     [pos |-> Vec(0, 100), vel |-> Zero], [pos |-> Vec(160, -100), vel |-> Zero],
     [pos |-> Vec(0, 0), vel |-> Zero]}

InitBot ==
    \E by \in BotYs, bs \in SomeOf(BotBallSpots) :
       WorldOf(PaddlesAt(720, 0, by) @@ BallsAt(bs), 720, 3520)

\* the inputs of a system that reads no key and no draw
NoInput == [w |-> winW, h |-> winH, keys |-> <<FALSE, FALSE>>, draw |-> <<>>]

BotAi ==
    /\ Commit(After1("bot_ai", World, NoInput))
    /\ UNCHANGED <<winW, winH, accumulator, looping, firstFrame>>

SpecBot == InitBot /\ [][BotAi]_vars

\* paddle_boundaries alone: windows 720, 800, 880 and 1200 px high, paddles
\* within the bounds, on them and beyond them (as after a resize)
ClampHeights == {2880, PADDLE_HEIGHT, 3520, 4800}
ClampYs == {-1000, -160, -40, 0, 40, 160, 1000}

InitClamp ==
    \E h \in ClampHeights, py \in ClampYs, by \in ClampYs :
       WorldOf(PaddlesAt(720, py, by), 720, h)

\* hist.pre keeps the entities as they were before the system ran
Clamp ==
    /\ Commit([After1("paddle_boundaries", World, NoInput) EXCEPT !.hist.pre = ents])
    /\ UNCHANGED <<winW, winH, accumulator, looping, firstFrame>>

SpecClamp == InitClamp /\ [][Clamp]_vars

\* The countdown of a batch with the S and W keys in every state: the balls
\* rest where they were spawned, the player's paddle is where earlier frames
\* have moved it, frames and fixed steps follow each other until the launch.
AllKeys == {<<s, w>> : s \in BOOLEAN, w \in BOOLEAN}
KeysYs == {-160, -120, 0, 120, 160}

InitKeys ==
    \E py \in KeysYs :
       WorldOf(PaddlesAt(720, py, 0) @@ BallsAt([i \in 1 .. MaxBalls |-> NewBall]),
               720, 3520)

FrameKeys ==
    /\ hist.launches = 0
    /\ FrameWith(AllKeys)

NextKeys ==
    \/ FrameKeys
    \/ FixedStep

SpecKeys == InitKeys /\ [][NextKeys]_vars

\* The physics set alone, on balls in flight: near the upper and the lower
\* bound, near and on a paddle, in a corner, about to leave; windows 800 and
\* 880 px high that the user may resize between ticks.
MaxTicks == 3
BounceHeights == {PADDLE_HEIGHT, 3520}
BounceBotYs == {0, 160}
BounceSpots ==
    {[pos |-> Vec(0, 1720), vel |-> Vec(39, 40)],
     [pos |-> Vec(0, -1720), vel |-> Vec(39, -40)],
     [pos |-> Vec(160, 1710), vel |-> Vec(0, 56)],
     [pos |-> Vec(100, 30), vel |-> Vec(56, 0)],
     [pos |-> Vec(104, 0), vel |-> Vec(56, 0)],
     [pos |-> Vec(330, 1730), vel |-> Vec(39, 40)],
     [pos |-> Vec(0, 0), vel |-> Vec(-56, 0)]}

InitBounce ==
    \E h \in BounceHeights, by \in BounceBotYs, bs \in SomeOf(BounceSpots) :
       WorldOf(PaddlesAt(720, 0, by) @@ BallsAt(bs), 720, h)

\* One fixed step: update_velocity, ball_bounce, then the two readers of its
\* events.  hist.bounce keeps what ball_bounce saw and what it left: the
\* entities before and after it, the events it sent, the despawn commands
\* queued when it returned, and the window it read.
Tick ==
    /\ hist.ticks < MaxTicks
    /\ LET moved == After1("update_velocity", World, NoInput)
           bounced == After1("ball_bounce", moved, NoInput)
           done == RunAll(<<"remove_off_screen_balls", "update_score">>, bounced, NoInput)
       IN Commit([done EXCEPT
                    !.hist.ticks = @ + 1,
                    !.hist.bounce =
                       [pre |-> moved.ents, post |-> bounced.ents,
                        sent |-> SubSeq(bounced.exitEv.new, Len(moved.exitEv.new) + 1,
                                        Len(bounced.exitEv.new)),
                        queued |-> bounced.despawnQ, w |-> winW, h |-> winH]])
    /\ UNCHANGED <<winW, winH, accumulator, looping, firstFrame>>

\* the user resizes the window between two ticks
Resize ==
    /\ \E h \in BounceHeights \ {winH} : winH' = h
    /\ UNCHANGED <<ents, nextId, winW, ballCount, timer, accumulator, looping,
                   firstFrame, exitEv, scoreEv, readScore, readRemove, scoreVal,
                   scoreText, hist>>

NextBounce ==
    \/ Tick
    \/ Resize

SpecBounce == InitBounce /\ [][NextBounce]_vars

(***************************************************************************)
(* The claims.  A state is the world between two passes, that is at a tick *)
(* boundary: all systems of the pass have run and its commands are applied.*)
(***************************************************************************)
SpawnedBalls == FirstBallId .. (nextId - 1)

\* C1: at every tick boundary BallCount equals the number of live Ball
\* entities, and it is never negative.
C1_BallCountIsLiveBalls ==
    /\ ballCount = Cardinality(Balls)
    /\ ballCount >= 0

\* C1 witness: a whole batch has been despawned and counted down, and of
\* the next batch one ball is despawned and counted down while others live.
C1_Witness ==
    /\ hist.batches = MaxBatches
    /\ \E b \in Balls : hist.removed[b - BALLS_AMOUNT] = 1
    /\ \E b \in SpawnedBalls \ Balls : hist.removed[b] = 1 /\ b + BALLS_AMOUNT >= nextId
    /\ 0 < ballCount
    /\ ballCount < BALLS_AMOUNT
    /\ Cardinality(Balls) = ballCount

\* C2: a ball that exits past the left boundary raises the Opponent's score by
\* exactly 1 and leaves the Player's score unchanged; a ball that exits past
\* the right boundary raises the Player's score by exactly 1 and leaves the
\* Opponent's unchanged.
C2_OppositeSideScores ==
    \A i \in 1 .. Len(hist.scoreLog) :
       LET g == hist.scoreLog[i]
       IN /\ g.left => /\ g.val[OPPONENT] = g.before[OPPONENT] + 1
                       /\ g.val[PLAYER] = g.before[PLAYER]
          /\ g.right => /\ g.val[PLAYER] = g.before[PLAYER] + 1
                        /\ g.val[OPPONENT] = g.before[OPPONENT]

\* C3: each ball is named by at most one exit event and is despawned exactly
\* once, in the tick of that event, with BallCount decremented by one for it;
\* no ball is despawned without an exit event and the paddles are never
\* despawned.
C3_DespawnedOncePerGoal ==
    /\ \A b \in BallIds : hist.goals[b] <= 1 /\ hist.removed[b] = hist.goals[b]
    /\ Balls = {b \in SpawnedBalls : hist.goals[b] = 0}
    /\ Paddles = {PlayerId, BotId}
    /\ ballCount = Cardinality(SpawnedBalls)
                   - Cardinality({b \in BallIds : hist.removed[b] >= 1})

\* C3 witness: a ball has left the screen and is gone, another batch is live.
C3_Witness ==
    /\ \E b \in BallIds : hist.goals[b] = 1 /\ hist.removed[b] = 1 /\ b \notin Live
    /\ Balls # {}

\* C4: spawn_ball runs only in a tick that begins with BallCount = 0; it
\* creates exactly BALLS_AMOUNT balls, resets the launch timer and sets
\* BallCount to BALLS_AMOUNT; no other tick creates a ball; and until
\* launch_ball runs every ball has velocity (0,0).
C4_Step ==
    LET repopulated == hist'.batches # hist.batches
        born == BallsOf(ents') \ Live
    IN /\ repopulated => /\ ballCount = 0
                         /\ Cardinality(born) = BALLS_AMOUNT
                         /\ timer' = TimerNew
                         /\ ballCount' = BALLS_AMOUNT
       /\ ~repopulated => born = {}
       /\ hist'.launches = 0 => \A b \in BallsOf(ents') : ents'[b].vel = Zero

C4_Repopulate == [][C4_Step]_vars

\* C4 witness: the last batch waits for its launch, some time after its spawn.
C4_Witness ==
    /\ hist.batches = MaxBatches
    /\ hist.launches = 0
    /\ timer.elapsed > 0
    /\ Cardinality(Balls) = BALLS_AMOUNT
    /\ \A b \in Balls : ents[b].vel = Zero /\ ents[b].pos = Zero

\* C5: launch_ball runs in exactly the tick in which the launch timer reaches
\* its duration and in no later tick of the expired timer; so there is at most
\* one launch between two repopulates, and none before the first repopulate.
C5_Step ==
    LET launched == hist'.launches > hist.launches
    IN /\ launched <=> (~timer.finished /\ timer'.finished)
       /\ hist'.launches <= 1
       /\ hist'.launches >= 1 => hist'.batches >= 1

C5_LaunchOncePerCountdown == [][C5_Step]_vars

\* C5 witness: a frame after the launch, the timer still expired.
C5_Witness ==
    /\ hist.launches = 1
    /\ timer.finished
    /\ ~timer.just
    /\ Balls # {}

Launched(k) ==
    /\ hist.batches = k
    /\ hist.launches = 1
    /\ \A b \in Balls : ents[b].vel # Zero

\* C6: while frames keep coming with positive deltas, every repopulate is
\* followed, before the next repopulate, by a launch after which no live ball
\* has velocity (0,0).
C6_LaunchFollowsRepopulate ==
    /\ \A k \in 1 .. MaxBatches : (hist.batches = k /\ hist.launches = 0) ~> Launched(k)
    /\ [](hist.launches >= 1 => \A b \in Balls : ents[b].vel # Zero)

\* C6 witness: the balls of the last batch are launched and live.
C6_Witness ==
    /\ Launched(MaxBatches)
    /\ Cardinality(Balls) = BALLS_AMOUNT

\* C7: every exit event is processed exactly once by update_score and exactly
\* once by remove_off_screen_balls, in the tick that emits it, and never in a
\* later tick.
C7_GoalProcessedOnce ==
    /\ \A b \in BallIds : hist.scored[b] = hist.goals[b] /\ hist.removed[b] = hist.goals[b]
    /\ readScore = EventCount(exitEv)
    /\ readRemove = EventCount(exitEv)

\* C7 witness: a fixed step has run in the frame after the one of a goal,
\* while the goal's event was still buffered.
C7_Witness ==
    /\ \E b \in BallIds : hist.scored[b] = 1 /\ hist.removed[b] = 1
    /\ Len(exitEv.old) > 0
    /\ accumulator = 0
    /\ ~looping

\* C8: after a score update the text of the updated record is the decimal
\* string of its count, for counts above 32767 too.
C8_TextIsDecimalCount ==
    \A i \in 1 .. Len(hist.scoreLog) :
       LET g == hist.scoreLog[i]
       IN \A w \in g.inc : g.text[w] = Digits(g.val[w]) /\ Parse(g.text[w]) = g.val[w]

\* C9: for every exit event processed exactly one ScoreEvent is sent, and the
\* side it carries is the side whose Score record was incremented.
C9_EventCarriesIncrementedSide ==
    \A i \in 1 .. Len(hist.scoreLog) :
       LET g == hist.scoreLog[i]
       IN Len(g.sent) = 1 /\ g.inc = {g.sent[1]}

\* C10: when bot_ai runs while no ball is live, the bot paddle's velocity is
\* left as it was.
C10_BotKeepsVelocityWithoutBalls ==
    (hist.bot.ran /\ hist.bot.balls = 0) => hist.bot.after = hist.bot.before

\* the place in the iteration order of the ball bot_ai steers for: none is
\* closer to the bot, and none as close comes earlier
BotTargets ==
    LET order == SetToSeq(Balls)
        d(i) == Dist2(ents[order[i]].pos, ents[BotId].pos)
    IN {ents[order[i]].pos.y :
          i \in {k \in 1 .. Len(order) :
                   \A j \in 1 .. Len(order) : d(j) > d(k) \/ (d(j) = d(k) /\ j >= k)}}

\* C11: with at least one live ball, bot_ai sets the bot's vertical velocity
\* to sign(dy) * min(|dy|, BOT_PADDLE_SPEED) for the closest ball, the first
\* in iteration order on ties: of magnitude BOT_PADDLE_SPEED when |dy| is
\* larger, exactly dy otherwise, so that one move does not pass the ball's y.
C11_BotTracksClosestBall ==
    (hist.bot.ran /\ hist.bot.balls >= 1) =>
       \A ty \in BotTargets :
          LET y == ents[BotId].pos.y
              dy == ty - y
              vy == ents[BotId].vel.y
          IN /\ Cardinality(BotTargets) = 1
             /\ vy = Signum(dy) * Min(Abs(dy), BOT_PADDLE_SPEED)
             /\ Abs(dy) > BOT_PADDLE_SPEED => Abs(vy) = BOT_PADDLE_SPEED
             /\ Abs(dy) <= BOT_PADDLE_SPEED => vy = dy
             /\ (y + vy - ty) * (y - ty) >= 0
             /\ Abs(y + vy - ty) <= Abs(y - ty)
             /\ ents[BotId].vel.x = hist.bot.before.x

\* C11 witness: bot_ai has run with two balls as close as each other, one
\* above and one below the bot, and steers for one of them.
C11_Witness ==
    /\ hist.bot.ran
    /\ \E a, b \in Balls :
          /\ a # b
          /\ Dist2(ents[a].pos, ents[BotId].pos) = Dist2(ents[b].pos, ents[BotId].pos)
          /\ ents[a].pos.y > ents[BotId].pos.y
          /\ ents[b].pos.y < ents[BotId].pos.y
    /\ ents[BotId].vel.y # 0

\* what C12 says of paddle p after paddle_boundaries has run: both edges
\* within the bounds, an edge that was beyond its bound on the bound, a paddle
\* that was within the bounds not moved
ClampedRight(p) ==
    LET y0 == hist.pre[p].pos.y
        y1 == ents[p].pos.y
        half == PADDLE_HEIGHT \div 2
        bound == winH \div 2
    IN /\ y1 + half <= bound
       /\ y1 - half >= -bound
       /\ y0 + half > bound => y1 + half = bound
       /\ y0 - half < -bound => y1 - half = -bound
       /\ (y0 + half <= bound /\ y0 - half >= -bound) => y1 = y0
       /\ ents[p].pos.x = hist.pre[p].pos.x

\* C12 as stated: for any playfield height and any paddle position, after
\* paddle_boundaries neither edge of the paddle is beyond its bound, an edge
\* that was beyond is on the bound, a paddle within the bounds is not moved.
C12_ClampAnyHeight ==
    hist.pre # <<>> => \A p \in Paddles : ClampedRight(p)

\* C12 amended: the same for any playfield height that is not smaller than
\* PADDLE_HEIGHT.
C12_ClampWhereThePaddleFits ==
    (hist.pre # <<>> /\ winH >= PADDLE_HEIGHT) => \A p \in Paddles : ClampedRight(p)

\* C12 witness: in a playfield higher than the paddle, one paddle was beyond
\* the upper bound and is on it, the other was within the bounds.
C12_Witness ==
    /\ hist.pre # <<>>
    /\ winH > PADDLE_HEIGHT
    /\ hist.pre[PlayerId].pos.y + PADDLE_HEIGHT \div 2 > winH \div 2
    /\ ents[PlayerId].pos.y + PADDLE_HEIGHT \div 2 = winH \div 2
    /\ hist.pre[BotId].pos.y # 0
    /\ ents[BotId].pos.y = hist.pre[BotId].pos.y

\* C13: with a playfield as high as the paddle (800), paddle_boundaries puts
\* a paddle at any y other than 0 to y = 0, leaves y = 0 alone, and applied
\* again leaves it at 0.
C13_FullHeightPaddleRestsAtZero ==
    (hist.pre # <<>> /\ winH = PADDLE_HEIGHT) =>
       \A p \in Paddles : ents[p].pos.y = 0 /\ ents[p].pos.x = hist.pre[p].pos.x

\* C13 witness: the playfield is as high as the paddle; one paddle was above
\* 0, the other below, and both are at 0.
C13_Witness ==
    /\ hist.pre # <<>>
    /\ winH = PADDLE_HEIGHT
    /\ hist.pre[PlayerId].pos.y > 0
    /\ hist.pre[BotId].pos.y < 0
    /\ \A p \in Paddles : ents[p].pos.y = 0

\* C14: once player_input has run, the player's y velocity is -PADDLE_SPEED
\* if S (down) was pressed, with or without W, PADDLE_SPEED if only W (up) was
\* pressed and 0 if neither was; the player's x velocity is 0 in every state.
C14_PlayerVelocityFollowsKeys ==
    LET v == ents[PlayerId].vel
        down == hist.keys[1]
        up == hist.keys[2]
    IN /\ v.x = 0
       /\ ~v.nan
       /\ hist.keys # <<>> =>
             /\ down => v.y = -PADDLE_SPEED
             /\ (up /\ ~down) => v.y = PADDLE_SPEED
             /\ (~up /\ ~down) => v.y = 0

\* C14 witness: player_input has run with both keys pressed and the player
\* moves down.
C14_Witness ==
    /\ hist.keys = <<TRUE, TRUE>>
    /\ ents[PlayerId].vel.y = -PADDLE_SPEED

\* C17: at the end of every tick no paddle edge lies beyond the playfield
\* bound (the controllers run before update_velocity and paddle_boundaries
\* after it in every schedule the registration allows).
C17_PaddlesWithinBoundsAfterTick ==
    \A p \in Paddles :
       /\ ents[p].pos.y + PADDLE_HEIGHT \div 2 <= winH \div 2
       /\ ents[p].pos.y - PADDLE_HEIGHT \div 2 >= -(winH \div 2)

\* the balls ball_bounce has dealt with in the last tick, and for ball b: the
\* position it was seen at, its velocity before and after, the bounds used
Bounced == IF hist.bounce = <<>> THEN {} ELSE BallsOf(hist.bounce.pre)
SeenAt(b) == hist.bounce.pre[b].pos
VelBefore(b) == hist.bounce.pre[b].vel
VelAfter(b) == hist.bounce.post[b].vel
AboveTop(b) == ~SeenAt(b).nan /\ SeenAt(b).y + BALL_SIZE \div 2 > hist.bounce.h \div 2
BelowBottom(b) == ~SeenAt(b).nan /\ SeenAt(b).y - BALL_SIZE \div 2 < -(hist.bounce.h \div 2)
BesideField(b) ==
    /\ ~SeenAt(b).nan
    /\ \/ SeenAt(b).x + BALL_SIZE \div 2 > hist.bounce.w \div 2
       \/ SeenAt(b).x - BALL_SIZE \div 2 < -(hist.bounce.w \div 2)
OnPaddle(b, p) ==
    LET t == SeenAt(b)
        pt == hist.bounce.pre[p].pos
    IN /\ ~t.nan
       /\ t.x - BALL_SIZE \div 2 < pt.x + PADDLE_WIDTH \div 2
       /\ t.x + BALL_SIZE \div 2 > pt.x - PADDLE_WIDTH \div 2
       /\ t.y - BALL_SIZE \div 2 < pt.y + PADDLE_HEIGHT \div 2
       /\ t.y + BALL_SIZE \div 2 > pt.y - PADDLE_HEIGHT \div 2
OnAPaddle(b) == \E p \in PaddlesOf(hist.bounce.pre) : OnPaddle(b, p)
CrossedMovingOut(b) ==
    \/ AboveTop(b) /\ VelBefore(b).y > 0
    \/ BelowBottom(b) /\ VelBefore(b).y < 0
Reflected(b) ==
    /\ ~VelAfter(b).nan
    /\ VelAfter(b).y = -VelBefore(b).y
    /\ VelAfter(b).x = VelBefore(b).x

\* C15: a ball that moved toward the top or bottom bound and is beyond it
\* after the move leaves ball_bounce with its y velocity negated and its x
\* velocity unchanged.
C15_WallBounceReflects ==
    \A b \in Bounced : CrossedMovingOut(b) => Reflected(b)

\* the same for the balls that overlap no paddle where they are
WallBounceOffPaddles ==
    \A b \in Bounced : (CrossedMovingOut(b) /\ ~OnAPaddle(b)) => Reflected(b)

\* the squared length of a vector
Len2(v) == v.x * v.x + v.y * v.y

\* v has length s and the direction of d, up to the rounding of the division
\* (one unit in each component)
LengthAndDirection(v, d, s) ==
    /\ ~v.nan
    /\ Len2(v) >= (s - 2) * (s - 2)
    /\ Len2(v) <= (s + 2) * (s + 2)
    /\ v.x * d.x + v.y * d.y > 0
    /\ (v.x * d.y - v.y * d.x) * (v.x * d.y - v.y * d.x) <= 4 * Len2(d)

\* the paddle iterated last of those ball b overlaps
LastPaddle(b) ==
    CHOOSE p \in PaddlesOf(hist.bounce.pre) :
       /\ OnPaddle(b, p)
       /\ \A q \in PaddlesOf(hist.bounce.pre) : OnPaddle(b, q) => q <= p

\* C16: a ball that overlaps a paddle, wherever it overlaps it, leaves
\* ball_bounce with a velocity of length BALL_SPEED that points from the
\* centre of the last overlapped paddle to the centre of the ball.
C16_PaddleBounceHasBallSpeed ==
    \A b \in Bounced :
       OnAPaddle(b) =>
          LengthAndDirection(VelAfter(b),
                             VSub(SeenAt(b), hist.bounce.pre[LastPaddle(b)].pos),
                             BALL_SPEED)

\* the same for a ball whose centre is not the paddle's centre
PaddleBounceOffCentre ==
    \A b \in Bounced :
       (OnAPaddle(b) /\ SeenAt(b) # hist.bounce.pre[LastPaddle(b)].pos) =>
          LengthAndDirection(VelAfter(b),
                             VSub(SeenAt(b), hist.bounce.pre[LastPaddle(b)].pos),
                             BALL_SPEED)

\* how often ball_bounce named ball b in the events of the last tick
SentFor(b) == Named(hist.bounce.sent, b)

\* C18: a ball that is beyond a vertical and a horizontal bound in the same
\* tick (and on no paddle) leaves ball_bounce with its y velocity negated and
\* its x velocity unchanged, exactly one event names it, and ball_bounce has
\* neither removed it nor queued a despawn; a ball beyond a horizontal bound
\* only keeps its velocity.
C18_CornerBallBouncesAndScores ==
    \A b \in Bounced :
       /\ (BesideField(b) /\ (AboveTop(b) \/ BelowBottom(b)) /\ ~OnAPaddle(b)) =>
             /\ Reflected(b)
             /\ SentFor(b) = 1
       /\ BesideField(b) =>
             /\ SentFor(b) = 1
             /\ b \in DOMAIN hist.bounce.post
             /\ hist.bounce.queued = <<>>
       /\ (BesideField(b) /\ ~AboveTop(b) /\ ~BelowBottom(b) /\ ~OnAPaddle(b)) =>
             VelAfter(b) = VelBefore(b)

\* C18 witness: a ball moving up and right is above the upper and right of the
\* right bound; it leaves ball_bounce moving down and right, named by one
\* event, and the readers of the event have since despawned it.
C18_Witness ==
    \E b \in Bounced :
       /\ BesideField(b)
       /\ AboveTop(b)
       /\ VelBefore(b).y > 0
       /\ VelAfter(b).y = -VelBefore(b).y
       /\ VelAfter(b).x = VelBefore(b).x
       /\ SentFor(b) = 1
       /\ b \notin DOMAIN ents

\* C20: a ball that ball_bounce has seen above the upper bound leaves it with
\* a y velocity that is not upward, one seen below the lower bound with a y
\* velocity that is not downward.
C20_VelocityPointsBackIn ==
    \A b \in Bounced :
       /\ AboveTop(b) => (~VelAfter(b).nan /\ VelAfter(b).y <= 0)
       /\ BelowBottom(b) => (~VelAfter(b).nan /\ VelAfter(b).y >= 0)

\* the records an entry of the score log has changed, each by one
Gained(entry) == {w \in Who : entry.val[w] = entry.before[w] + 1}

\* C19: at the end of every pass the two scores and BallCount add up to
\* BALLS_AMOUNT times the number of batches spawned so far; in every pass no
\* score decreases, every exit event update_score processes adds one to one
\* record, and the scores grow by the number of events processed.
C19_BallsAreConserved ==
    /\ [](scoreVal[PLAYER] + scoreVal[OPPONENT] + ballCount = BALLS_AMOUNT * hist.batches)
    /\ [][/\ \A w \in Who : scoreVal'[w] >= scoreVal[w]
          /\ (scoreVal'[PLAYER] - scoreVal[PLAYER]) + (scoreVal'[OPPONENT] - scoreVal[OPPONENT])
                = Len(hist'.scoreLog)
          /\ \A i \in 1 .. Len(hist'.scoreLog) :
                /\ Cardinality(Gained(hist'.scoreLog[i])) = 1
                /\ \A w \in Who \ Gained(hist'.scoreLog[i]) :
                      hist'.scoreLog[i].val[w] = hist'.scoreLog[i].before[w]]_vars

\* C19 witness: in the second batch a goal has just been counted and a ball is
\* still in play.
C19_Witness ==
    /\ hist.batches = 2
    /\ Len(hist.scoreLog) >= 1
    /\ ballCount >= 1
    /\ scoreVal[PLAYER] + scoreVal[OPPONENT] > BALLS_AMOUNT

=============================================================================
